---- MODULE Spec2Model ----
(***************************************************************************)
(* Model of DARTLEDs.cpp: the 3-byte BLE command decoder in loop(), the    *)
(* two Timer slots (t: effect job, t2: light-show sequence job), the       *)
(* start/stop functions and the pattern tick functions.                    *)
(*                                                                         *)
(* The program's globals are collected in one record (Cur); every C        *)
(* function is an operator from such a record to the record after the      *)
(* call, or to the SET of records the call can produce when the function   *)
(* draws random numbers or reads the clock.                                *)
(***************************************************************************)
EXTENDS Integers, Sequences, FiniteSets, TLC

(***************************************************************************)
(* Bounds of the model.                                                    *)
(***************************************************************************)
\* NUM_LEDS is 100 in the source (DARTLEDs.cpp:9); the model keeps it even
\* and scales it down to 2 * HalfLeds.
HalfLeds == 4
\* Number of BLE packets the host sends in one run.
MaxRecv == 2
\* Number of timer callbacks (effect ticks and sequence ticks) fired in one
\* run, after setup().
MaxTicks == 2
\* Number of event slots of one Timer object.
MaxEvents == 2

NUM_LEDS == 2 * HalfLeds
Pixels == 0 .. (NUM_LEDS - 1)

(***************************************************************************)
(* Colours.  A CRGB is the packed number 0xRRGGBB.  A colour computed by   *)
(* FastLED's colour math (hsv2rgb, ColorFromPalette, blending, fading) is  *)
(* kept symbolic: LibColor(tag, x) is a number above 0xFFFFFF naming the   *)
(* library call and its arguments.                                         *)
(***************************************************************************)
RGB(r, g, b) == (r * 65536) + (g * 256) + b
Red(c) == (c \div 65536) % 256
Green(c) == (c \div 256) % 256
Blue(c) == c % 256
Black == 0
White == 16777215
LibColor(tag, x) == ((tag + 1) * 16777216) + x
IsRGB(c) == c < 16777216

\* Default colours, DARTLEDs.cpp:66-71
Dart1Default == 16744272
Dart2Default == 11119017
Dart3Default == 14474460
Dart4Default == 8900331
Dart5Default == 15631086
BackGroundDefault == 16777184
BrightnessDefault == 50
firmwareVersion == 191

\* Timer library return value of stop()
TIMER_NOT_AN_EVENT == -2
NO_TIMER_AVAILABLE == -1

VARIABLES
  \* ---- program globals
  leds,            \* CRGB leds[NUM_LEDS]
  dart1, dart2, dart3, dart4, dart5, backGround,
  setColor,        \* CRGB setColor (a copy of a colour, not a reference)
  brightness,      \* int brightness
  mode,            \* byte mode
  timerID, timerID2,
  t, t2,           \* Timer t, t2: slot -> event
  clearHeat, heat, \* fire state
  run, numRunners, \* Runner run[6]
  gCurrentPatternNumber, gHue,
  currentPalette, currentBlending,
  blinkBroadway, blinkFlashing,  \* static bool blink in the two functions
  startIndex, lastSecond,        \* statics of paletteShow/ChangePalettePeriodically
  loaded,
  \* ---- FastLED (the pixel sink)
  fastBrightness,  \* FastLED.setBrightness() value
  shown,           \* the frame last flushed by FastLED.show()
  shownBrightness, \* the brightness that flush used
  outOfRange,      \* TRUE once a tick wrote leds[] outside [0, NUM_LEDS)
  \* ---- BLE transport
  rx,              \* bytes received and not yet read
  tx,              \* bytes written by ble_write, in order
  connected,
  \* ---- loop()
  pc,              \* position in loop()
  data0, data1, data2,  \* the three bytes read by the last decode step
  \* ---- environment of the run
  host,            \* the packets the host may send
  prng,            \* the values the randomness source and the clock may return
  nRecv, nTicks    \* packets received, callbacks fired

progVars == <<leds, dart1, dart2, dart3, dart4, dart5, backGround, setColor,
              brightness, mode, timerID, timerID2, t, t2, clearHeat, heat,
              run, numRunners, gCurrentPatternNumber, gHue, currentPalette,
              currentBlending, blinkBroadway, blinkFlashing, startIndex,
              lastSecond, fastBrightness, shown, shownBrightness,
              outOfRange, tx>>
envVars == <<rx, connected, loaded, pc, data0, data1, data2, host, prng, nRecv, nTicks>>
vars == <<progVars, envVars>>


(***************************************************************************)
(* The program's globals as one record.                                    *)
(***************************************************************************)
Cur ==
  [leds |-> leds, dart1 |-> dart1, dart2 |-> dart2, dart3 |-> dart3,
   dart4 |-> dart4, dart5 |-> dart5, backGround |-> backGround,
   setColor |-> setColor, brightness |-> brightness, mode |-> mode,
   timerID |-> timerID, timerID2 |-> timerID2, t |-> t, t2 |-> t2,
   clearHeat |-> clearHeat, heat |-> heat, run |-> run,
   numRunners |-> numRunners,
   gCurrentPatternNumber |-> gCurrentPatternNumber, gHue |-> gHue,
   currentPalette |-> currentPalette, currentBlending |-> currentBlending,
   blinkBroadway |-> blinkBroadway, blinkFlashing |-> blinkFlashing,
   startIndex |-> startIndex, lastSecond |-> lastSecond,
   fastBrightness |-> fastBrightness, shown |-> shown,
   shownBrightness |-> shownBrightness, outOfRange |-> outOfRange, tx |-> tx]

Commit(s) ==
  /\ leds' = s.leds
  /\ dart1' = s.dart1 /\ dart2' = s.dart2 /\ dart3' = s.dart3
  /\ dart4' = s.dart4 /\ dart5' = s.dart5 /\ backGround' = s.backGround
  /\ setColor' = s.setColor
  /\ brightness' = s.brightness
  /\ mode' = s.mode
  /\ timerID' = s.timerID /\ timerID2' = s.timerID2
  /\ t' = s.t /\ t2' = s.t2
  /\ clearHeat' = s.clearHeat /\ heat' = s.heat
  /\ run' = s.run /\ numRunners' = s.numRunners
  /\ gCurrentPatternNumber' = s.gCurrentPatternNumber /\ gHue' = s.gHue
  /\ currentPalette' = s.currentPalette
  /\ currentBlending' = s.currentBlending
  /\ blinkBroadway' = s.blinkBroadway /\ blinkFlashing' = s.blinkFlashing
  /\ startIndex' = s.startIndex /\ lastSecond' = s.lastSecond
  /\ fastBrightness' = s.fastBrightness
  /\ shown' = s.shown /\ shownBrightness' = s.shownBrightness
  /\ outOfRange' = s.outOfRange
  /\ tx' = s.tx

\* The outcomes of running F on every outcome in S.
Bind(S, F(_)) == UNION {F(s) : s \in S}

(***************************************************************************)
(* FastLED: the pixel sink.                                                *)
(***************************************************************************)
FastLED_show(s) ==
  [s EXCEPT !.shown = s.leds, !.shownBrightness = s.fastBrightness]

FastLED_setBrightness(s, scale) == [s EXCEPT !.fastBrightness = scale % 256]

\* leds[i] = c; an index outside the array is recorded, the array is not
\* changed by it.
WriteLed(s, i, c) ==
  IF i \in Pixels THEN [s EXCEPT !.leds[i] = c]
                  ELSE [s EXCEPT !.outOfRange = TRUE]

\* Fault variant of qadd8: the sum is not clamped at 255.
qadd8_NoClamp(i, j) == i + j

qadd8(i, j) == IF i + j > 255 THEN 255 ELSE i + j
qsub8(i, j) == IF i - j < 0 THEN 0 ELSE i - j
scale8_video(i, scale) ==
  ((i * scale) \div 256) + (IF i # 0 /\ scale # 0 THEN 1 ELSE 0)

\* The symbolic colours of FastLED's colour math.
\* (tags: 0 a CHSV colour, 1 a palette sample, 2 a blend of two colours)
CHSV(h, sat, v) == LibColor(0, RGB(h % 256, sat, v))
ColorFromPalette(pal, index, bri, blend) ==
  LibColor(1, (((pal * 2) + blend) * 65536) + ((index % 256) * 256) + (bri % 256))
Mixed == LibColor(2, 0)
\* fadeToBlackBy on one pixel: black stays black.
FadeColor(c) == IF c = Black THEN Black ELSE Mixed
\* CRGB += and |= on one pixel.
AddColor(c, d) ==
  IF c = Black THEN d ELSE IF d = Black THEN c ELSE IF d = White THEN White ELSE Mixed
OrColor(c, d) == IF c = Black THEN d ELSE IF d = Black THEN c ELSE Mixed

\* HeatColor(temperature): the black -> red -> yellow -> white ramp.
HeatColor(temperature) ==
  LET t192 == scale8_video(temperature, 191)
      heatramp == (t192 % 64) * 4
  IN  IF t192 >= 128 THEN RGB(255, 255, heatramp)
      ELSE IF t192 >= 64 THEN RGB(255, heatramp, 0)
      ELSE RGB(heatramp, 0, 0)

(***************************************************************************)
(* The Timer library: every(), stop(), and the slots update() walks.       *)
(***************************************************************************)
Slots == 0 .. (MaxEvents - 1)
NoEvent == [eventType |-> "NONE", period |-> 0, callback |-> "none"]

\* Timer::stop(id): the slot's type becomes NONE; the call returns
\* TIMER_NOT_AN_EVENT.
TimerStop(timer, id) ==
  IF id \in Slots THEN [timer EXCEPT ![id].eventType = "NONE"] ELSE timer

\* Timer::findFreeEventIndex()
FreeIndex(timer) ==
  IF \E i \in Slots : timer[i].eventType = "NONE"
  THEN CHOOSE i \in Slots :
         /\ timer[i].eventType = "NONE"
         /\ \A j \in Slots : timer[j].eventType = "NONE" => i <= j
  ELSE NO_TIMER_AVAILABLE

\* Timer::every(period, callback, context): the slot taken, or -1.
TimerEvery(timer, period, callback) ==
  LET i == FreeIndex(timer)
  IN  IF i = NO_TIMER_AVAILABLE THEN timer
      ELSE [timer EXCEPT ![i] = [eventType |-> "EVERY", period |-> period,
                                  callback |-> callback]]

Jobs(timer) == {i \in Slots : timer[i].eventType = "EVERY"}

\* Fault variant of StopT: the id is overwritten but the event is not
\* stopped.
StopT_Leak(s) == [s EXCEPT !.timerID = TIMER_NOT_AN_EVENT]

\* timerID = t.stop(timerID);
StopT(s) ==
  [s EXCEPT !.t = TimerStop(s.t, s.timerID), !.timerID = TIMER_NOT_AN_EVENT]

\* timerID = t.every(period, callback, (void*)0);
EveryT(s, period, callback) ==
  [s EXCEPT !.t = TimerEvery(s.t, period, callback), !.timerID = FreeIndex(s.t)]

\* timerID2 = t2.stop(timerID2);
StopT2(s) ==
  [s EXCEPT !.t2 = TimerStop(s.t2, s.timerID2), !.timerID2 = TIMER_NOT_AN_EVENT]

\* timerID2 = t2.every(10000, lightShow, (void*)0);
EveryT2(s, period, callback) ==
  [s EXCEPT !.t2 = TimerEvery(s.t2, period, callback), !.timerID2 = FreeIndex(s.t2)]

(***************************************************************************)
(* Drawing helpers.                                                        *)
(***************************************************************************)
allOff(s) == FastLED_show([s EXCEPT !.leds = [i \in Pixels |-> Black]])

setBrightness(s) == FastLED_show(FastLED_setBrightness(s, s.brightness))

lightsOn(s, color) == FastLED_show([s EXCEPT !.leds = [i \in Pixels |-> color]])

stopTimer(s) == StopT(s)

\* Fault variant of stopLightsShow: the sequence job is not stopped.
stopLightsShow_NoStop(s) == allOff(s)

\* t2.stop(timerID2) without storing the result, then allOff().
stopLightsShow(s) == allOff([s EXCEPT !.t2 = TimerStop(s.t2, s.timerID2)])

\* Fault variant of randomColor: the background colour is drawn.
randomColor_Background(s, r) == [s EXCEPT !.setColor = s.backGround]

\* randomColor() with r = rand() % 5
randomColor(s, r) ==
  [s EXCEPT !.setColor = CASE r = 0 -> s.dart1
                           [] r = 1 -> s.dart2
                           [] r = 2 -> s.dart3
                           [] r = 3 -> s.dart4
                           [] r = 4 -> s.dart5
                           [] OTHER -> s.setColor]


(***************************************************************************)
(* Pattern ticks: the callbacks of timer t.                                *)
(***************************************************************************)
RECURSIVE RunnerLoop(_, _)
\* the body of lightsRunning's for loop, from runner i on
RunnerLoop(s, i) ==
  IF i >= s.numRunners THEN s
  ELSE LET pos == s.run[i].pos
           s1 == WriteLed(s, pos, Black)
           newPos == IF s.run[i].dir = 0
                     THEN (IF pos = NUM_LEDS - 1 THEN 0 ELSE pos + 1)
                     ELSE (IF pos = 0 THEN NUM_LEDS - 1 ELSE pos - 1)
           s2 == [s1 EXCEPT !.run[i].pos = newPos]
       IN  RunnerLoop(WriteLed(s2, newPos, s2.setColor), i + 1)

lightsRunning(s) == FastLED_show(RunnerLoop(s, 0))

\* lightsOddEven(odd): writes leds[dot] and leds[dot+1] for dot = 0, 2, ...
\* below NUM_LEDS; with an odd NUM_LEDS the last dot+1 is NUM_LEDS.
lightsOddEven(s, odd) ==
  [s EXCEPT !.leds = [i \in Pixels |->
                        IF (i % 2 = 0) = (odd = 0) THEN s.setColor ELSE Black],
            !.outOfRange = @ \/ (NUM_LEDS % 2 = 1)]

lightsBroadway(s) ==
  LET s1 == [s EXCEPT !.blinkBroadway = ~s.blinkBroadway]
  IN  FastLED_show(IF s1.blinkBroadway THEN lightsOddEven(s1, 0)
                                       ELSE lightsOddEven(s1, 1))

lightsFlashing(s) ==
  LET s1 == [s EXCEPT !.blinkFlashing = ~s.blinkFlashing]
  IN  FastLED_show(IF s1.blinkFlashing THEN lightsOn(s1, s1.setColor)
                                       ELSE allOff(s1))

\* Palettes by number: 0 RainbowColors_p, 1 RainbowStripeColors_p,
\* 2 purple and orange, 3 totally random, 4 black and fuchsia stripes,
\* 5 CloudColors_p, 6 PartyColors_p, 7 myRedWhiteBluePalette_p.
\* Blending: 0 NOBLEND, 1 LINEARBLEND.
FillLEDsFromPaletteColors(s, colorIndex) ==
  [s EXCEPT !.leds = [i \in Pixels |->
       ColorFromPalette(s.currentPalette, colorIndex + (3 * i), 255,
                        s.currentBlending)]]

PaletteAt(secondHand) ==
  CASE secondHand = 0  -> <<0, 1>>
    [] secondHand = 10 -> <<1, 0>>
    [] secondHand = 15 -> <<1, 1>>
    [] secondHand = 20 -> <<2, 1>>
    [] secondHand = 25 -> <<3, 1>>
    [] secondHand = 30 -> <<4, 0>>
    [] secondHand = 35 -> <<4, 1>>
    [] secondHand = 40 -> <<5, 1>>
    [] secondHand = 45 -> <<6, 1>>
    [] secondHand = 50 -> <<7, 0>>
    [] secondHand = 55 -> <<7, 1>>
    [] OTHER -> <<>>

\* ChangePalettePeriodically() with secondHand = (millis() / 1000) % 60
ChangePalettePeriodically(s, secondHand) ==
  IF s.lastSecond # secondHand
  THEN LET s1 == [s EXCEPT !.lastSecond = secondHand]
       IN  IF PaletteAt(secondHand) = <<>> THEN s1
           ELSE [s1 EXCEPT !.currentPalette = PaletteAt(secondHand)[1],
                           !.currentBlending = PaletteAt(secondHand)[2]]
  ELSE s

paletteShow(s, p) ==
  { LET s1 == ChangePalettePeriodically(s, secondHand)
        s2 == [s1 EXCEPT !.startIndex = (s1.startIndex + 1) % 256]
    IN  FastLED_show(FillLEDsFromPaletteColors(s2, s2.startIndex))
    : secondHand \in p.secondHand }

\* Fire2012 with the draws d: d.cool[i] = random8(0, COOLING*10/NUM_LEDS+2)
\* per cell, d.spark = (random8() < SPARKING), d.y = random8(7),
\* d.amount = random8(160, 255).
COOLING == 55
SPARKING == 120
CoolLimit == ((COOLING * 10) \div NUM_LEDS) + 2

\* Fault variant of Fire2012: the diffusion step averages the cell itself
\* and the two cells below it.
Fire2012_SelfAverage(s, d) ==
  LET h0 == IF s.clearHeat THEN [i \in Pixels |-> 0] ELSE s.heat
      h1 == [i \in Pixels |-> qsub8(h0[i], d.cool[i])]
      h2 == [k \in Pixels |->
               IF k >= 2 THEN (h1[k] + h1[k - 1] + h1[k - 2]) \div 3
                         ELSE h1[k]]
      h3 == IF d.spark /\ d.y \in Pixels
            THEN [h2 EXCEPT ![d.y] = qadd8(h2[d.y], d.amount)] ELSE h2
  IN  FastLED_show([s EXCEPT !.clearHeat = FALSE,
                             !.heat = h3,
                             !.leds = [j \in Pixels |-> HeatColor(h3[j])],
                             !.outOfRange = @ \/ (d.spark /\ d.y \notin Pixels)])

Fire2012(s, d) ==
  LET h0 == IF s.clearHeat THEN [i \in Pixels |-> 0] ELSE s.heat
      h1 == [i \in Pixels |-> qsub8(h0[i], d.cool[i])]
      h2 == [k \in Pixels |->
               IF k >= 2 THEN (h1[k - 1] + h1[k - 2] + h1[k - 2]) \div 3
                         ELSE h1[k]]
      h3 == IF d.spark /\ d.y \in Pixels
            THEN [h2 EXCEPT ![d.y] = qadd8(h2[d.y], d.amount)] ELSE h2
  IN  FastLED_show([s EXCEPT !.clearHeat = FALSE,
                             !.heat = h3,
                             !.leds = [j \in Pixels |-> HeatColor(h3[j])],
                             !.outOfRange = @ \/ (d.spark /\ d.y \notin Pixels)])

FireOutcomes(s, p) == {Fire2012(s, d) : d \in p.fire}


(***************************************************************************)
(* The rainbow show: gPatterns = {rainbow, rainbowWithGlitter, confetti,   *)
(* sinelon, juggle, bpm}.                                                  *)
(***************************************************************************)
FadeAll(s) == [s EXCEPT !.leds = [i \in Pixels |-> FadeColor(s.leds[i])]]

\* leds[i] += c, leds[i] |= c
AddLed(s, i, c) ==
  IF i \in Pixels THEN WriteLed(s, i, AddColor(s.leds[i], c))
                  ELSE [s EXCEPT !.outOfRange = TRUE]
OrLed(s, i, c) ==
  IF i \in Pixels THEN WriteLed(s, i, OrColor(s.leds[i], c))
                  ELSE [s EXCEPT !.outOfRange = TRUE]

\* fill_rainbow(leds, NUM_LEDS, gHue, 7)
rainbow(s) ==
  [s EXCEPT !.leds = [i \in Pixels |-> CHSV(s.gHue + (7 * i), 240, 255)]]

\* addGlitter: hit = (random8() < chanceOfGlitter), pos = random16(NUM_LEDS)
addGlitter(s, hit, pos) == IF hit THEN AddLed(s, pos, White) ELSE s

rainbowWithGlitter(s, p) ==
  {addGlitter(rainbow(s), hit, pos) : hit \in p.chance, pos \in p.random16}

\* confetti: pos = random16(NUM_LEDS), h = random8(64)
confetti(s, p) ==
  {AddLed(FadeAll(s), pos, CHSV(s.gHue + h, 200, 255))
     : pos \in p.random16, h \in p.random8_64}

\* sinelon: pos = beatsin16(13, 0, NUM_LEDS)
sinelon(s, p) ==
  {AddLed(FadeAll(s), pos, CHSV(s.gHue, 255, 192)) : pos \in p.beatsin16}

\* bpm: beat = beatsin8(62, 64, 255); palette PartyColors_p, LINEARBLEND
bpm(s, p) ==
  {[s EXCEPT !.leds = [i \in Pixels |->
       ColorFromPalette(6, s.gHue + (i * 2), (beat - s.gHue) + (i * 10), 1)]]
     : beat \in p.beatsin8}

RECURSIVE JuggleLoop(_, _, _)
JuggleLoop(s, dots, i) ==
  IF i >= 8 THEN s
  ELSE JuggleLoop(OrLed(s, dots[i], CHSV(32 * i, 200, 255)), dots, i + 1)

\* juggle: dots[i] = beatsin16(i + 7, 0, NUM_LEDS)
juggle(s, p) == {JuggleLoop(FadeAll(s), dots, 0) : dots \in p.juggle}

nextPattern(s) ==
  [s EXCEPT !.gCurrentPatternNumber = (s.gCurrentPatternNumber + 1) % 6]

\* rainbowShow: the current pattern, show, then the two EVERY_N blocks, each
\* of which runs or not depending on the clock: due = <<the 20 ms block
\* runs, the 3 s block runs>>.
rainbowShow(s, p) ==
  LET n == s.gCurrentPatternNumber
      drawn == CASE n = 0 -> {rainbow(s)}
                 [] n = 1 -> rainbowWithGlitter(s, p)
                 [] n = 2 -> confetti(s, p)
                 [] n = 3 -> sinelon(s, p)
                 [] n = 4 -> juggle(s, p)
                 [] OTHER -> bpm(s, p)
  IN  { LET s1 == FastLED_show(s0)
            s2 == IF due[1] THEN [s1 EXCEPT !.gHue = (s1.gHue + 1) % 256] ELSE s1
        IN  IF due[2] THEN nextPattern(s2) ELSE s2
        : s0 \in drawn, due \in p.everyN }

(***************************************************************************)
(* The start functions.                                                    *)
(***************************************************************************)
startRainbowShow(s, p) ==
  LET s1 == StopT(allOff(FastLED_setBrightness(s, 96)))
  IN  {EveryT(s2, 10, "rainbowShow") : s2 \in rainbowShow(s1, p)}

startPaletteShow(s, p) ==
  LET s1 == [s EXCEPT !.currentPalette = 0, !.currentBlending = 1]
      s2 == StopT(allOff(FastLED_setBrightness(s1, 60)))
  IN  {EveryT(s3, 10, "paletteShow") : s3 \in paletteShow(s2, p)}

\* Fault variant of startFire: clearHeat is not set, the heat of the
\* earlier run is kept.
startFire_KeepHeat(s, p) ==
  LET s1 == StopT(allOff(setBrightness(s)))
  IN  {EveryT(s3, 100, "Fire2012") : s3 \in FireOutcomes(s1, p)}

startFire(s, p) ==
  LET s1 == StopT(allOff(setBrightness(s)))
      s2 == [s1 EXCEPT !.clearHeat = TRUE]
  IN  {EveryT(s3, 100, "Fire2012") : s3 \in FireOutcomes(s2, p)}

startLightsFlashing(s, dur, p) ==
  { EveryT(lightsFlashing(StopT(allOff(setBrightness(randomColor(s, r))))),
           dur, "lightsFlashing")
    : r \in p.color }

\* Fault variant of startLightsBroadway: the running job is not stopped
\* before the new one is installed.
startLightsBroadway_NoStop(s, dur, p) ==
  { EveryT(lightsBroadway(allOff(setBrightness(randomColor(s, r)))),
           dur, "lightsBroadway")
    : r \in p.color }

startLightsBroadway(s, dur, p) ==
  { EveryT(lightsBroadway(StopT(allOff(setBrightness(randomColor(s, r))))),
           dur, "lightsBroadway")
    : r \in p.color }

\* dirs[i] = rand() % 2 for runner i
startLightsRunning(s, dur, runners, p) ==
  { LET s1 == StopT(allOff(setBrightness(randomColor(s, r))))
        s2 == [s1 EXCEPT
                 !.run = [i \in DOMAIN s1.run |->
                            IF i < runners
                            THEN [pos |-> (i * (NUM_LEDS \div runners)) % 256,
                                  dir |-> dirs[i]]
                            ELSE s1.run[i]],
                 !.numRunners = runners]
    IN  EveryT(lightsRunning(s2), dur, "lightsRunning")
    : r \in p.color, dirs \in p.dirs }

\* lightShow: disp = rand() % 7, randomColor(), then the chosen start.
lightShow(s, p) ==
  UNION { LET s1 == randomColor(s, r)
          IN  CASE disp = 0 -> startLightsFlashing(s1, 200, p)
                [] disp = 1 -> startLightsRunning(s1, 200, 4, p)
                [] disp = 2 -> startLightsBroadway(s1, 200, p)
                [] disp = 3 -> startPaletteShow(s1, p)
                [] disp = 4 -> startLightsRunning(s1, 200, 6, p)
                [] disp = 5 -> startFire(s1, p)
                [] disp = 6 -> startRainbowShow(s1, p)
                [] OTHER -> {s1}
          : disp \in p.disp, r \in p.color }

startLightsShow(s, p) ==
  {EveryT2(s1, 10000, "lightShow")
     : s1 \in lightShow(StopT2(allOff(setBrightness(s))), p)}


(***************************************************************************)
(* The BLE side: ble_write and the command decoder of loop().              *)
(***************************************************************************)
ble_write(s, b) == [s EXCEPT !.tx = Append(s.tx, b % 256)]

\* Fault variant of writeCmd: the value's low byte is sent before its high
\* byte.
writeCmd_LowFirst(s, command, value) ==
  ble_write(ble_write(ble_write(s, command), value), value \div 256)

writeCmd(s, command, value) ==
  ble_write(ble_write(ble_write(s, command), value \div 256), value)

writeFirmware(s) == writeCmd(s, 0, firmwareVersion)

\* The switch (mode) of the play command.
Play(s, d1, p) ==
  CASE s.mode = 0 -> {allOff(stopLightsShow(stopTimer(s)))}
    [] s.mode = 1 -> {lightsOn(allOff(stopTimer(s)), s.dart1)}
    [] s.mode = 2 -> startLightsFlashing(s, 500, p)
    [] s.mode = 3 -> startLightsRunning(s, 200, 2, p)
    [] s.mode = 4 -> {s}
    [] s.mode = 5 -> startLightsBroadway(s, 200, p)
    [] s.mode = 6 -> startLightsShow(s, p)
    [] s.mode = 7 -> { CASE d1 = 0 -> lightsOn(s, s.dart1)
                         [] d1 = 1 -> lightsOn(s, s.dart2)
                         [] d1 = 2 -> lightsOn(s, s.dart3)
                         [] d1 = 3 -> lightsOn(s, s.dart4)
                         [] d1 = 4 -> lightsOn(s, s.dart5)
                         [] d1 = 5 -> lightsOn(s, s.backGround)
                         [] OTHER -> s }
    [] s.mode = 8 -> startPaletteShow(s, p)
    [] s.mode = 9 -> startRainbowShow(s, p)
    [] OTHER -> {allOff(stopTimer(s))}

\* Fault variant of SetB: the byte is stored in all three channels.
SetB_Gray(c, d2) == RGB(d2, d2, d2)

\* dartN.r = d1; dartN.g = d2;   and   dartN.b = d2;
SetRG(c, d1, d2) == RGB(d1, d2, Blue(c))
SetB(c, d2) == RGB(Red(c), Green(c), d2)

\* The switch (data2) of the setColor command.
SelectColor(s, d2) ==
  CASE d2 = 0 -> [s EXCEPT !.setColor = s.dart1]
    [] d2 = 1 -> [s EXCEPT !.setColor = s.dart2]
    [] d2 = 2 -> [s EXCEPT !.setColor = s.dart3]
    [] d2 = 3 -> [s EXCEPT !.setColor = s.dart4]
    [] d2 = 4 -> [s EXCEPT !.setColor = s.dart5]
    [] d2 = 5 -> [s EXCEPT !.setColor = s.backGround]
    [] OTHER -> allOff(stopTimer(s))

\* The stop command: stopTimer(); stopLightsShow(); allOff();
Stop(s) == allOff(stopLightsShow(stopTimer(s)))

\* Command 0x01: stop (0), play (1); any other data2 does nothing.
PlayControl(s, d1, d2, p) ==
  CASE d2 = 0 -> {Stop(s)}
    [] d2 = 1 -> Play(s, d1, p)
    [] OTHER -> {s}

\* Fault variant of the mode command: storing the mode also stops the
\* running effect.
SetMode_Stops(s, d2) == allOff(stopTimer([s EXCEPT !.mode = d2]))

\* Command 0x02
SetMode(s, d2) == [s EXCEPT !.mode = d2]

\* Fault variant of the brightness command: the strip is blanked as the
\* start functions do.
SetBrightnessCmd_Blank(s, d2) == allOff(setBrightness([s EXCEPT !.brightness = d2]))

\* Fault variant of the brightness command: data2 is added to the
\* brightness instead of replacing it.
SetBrightnessCmd_Add(s, d2) ==
  setBrightness([s EXCEPT !.brightness = (s.brightness + d2) % 256])

\* Command 0x0f: brightness = data2; setBrightness();
SetBrightnessCmd(s, d2) == setBrightness([s EXCEPT !.brightness = d2])

\* Fault variant of the unknown command: it acts as the default branch of
\* the setColor switch does.
UnknownCmd_Stops(s) == allOff(stopTimer(s))

\* A data0 that no branch of the chain matches.
UnknownCmd(s) == s

\* The if / else-if chain on data0 in loop(): the states after one frame
\* (d0, d1, d2) has been acted on.
Decode(s, d0, d1, d2, p) ==
  CASE d0 = 0 -> {writeFirmware(s)}
    [] d0 = 1 -> PlayControl(s, d1, d2, p)
    [] d0 = 2 -> {SetMode(s, d2)}
    [] d0 = 3 -> {[s EXCEPT !.dart1 = SetRG(s.dart1, d1, d2)]}
    [] d0 = 4 -> {[s EXCEPT !.dart1 = SetB(s.dart1, d2)]}
    [] d0 = 5 -> {[s EXCEPT !.dart2 = SetRG(s.dart2, d1, d2)]}
    [] d0 = 6 -> {[s EXCEPT !.dart2 = SetB(s.dart2, d2)]}
    [] d0 = 7 -> {[s EXCEPT !.dart3 = SetRG(s.dart3, d1, d2)]}
    [] d0 = 8 -> {[s EXCEPT !.dart3 = SetB(s.dart3, d2)]}
    [] d0 = 9 -> {[s EXCEPT !.dart4 = SetRG(s.dart4, d1, d2)]}
    [] d0 = 10 -> {[s EXCEPT !.dart4 = SetB(s.dart4, d2)]}
    [] d0 = 11 -> {[s EXCEPT !.dart5 = SetRG(s.dart5, d1, d2)]}
    [] d0 = 12 -> {[s EXCEPT !.dart5 = SetB(s.dart5, d2)]}
    [] d0 = 13 -> {[s EXCEPT !.backGround = SetRG(s.backGround, d1, d2)]}
    [] d0 = 14 -> {[s EXCEPT !.backGround = SetB(s.backGround, d2)]}
    [] d0 = 15 -> {SetBrightnessCmd(s, d2)}
    [] d0 = 16 -> {SelectColor(s, d2)}
    [] OTHER -> {UnknownCmd(s)}

\* ble_read(): the next received byte; with no byte left the library's
\* answer is one of p.emptyRead.
ReadBytes(buf, k, p) == IF k <= Len(buf) THEN {buf[k]} ELSE p.emptyRead
RestAfterFrame(buf) == IF Len(buf) <= 3 THEN <<>> ELSE SubSeq(buf, 4, Len(buf))

(***************************************************************************)
(* Timer::update(): every registered event that is due runs its callback,  *)
(* in slot order.                                                          *)
(***************************************************************************)
Callback(s, name, p) ==
  CASE name = "lightsFlashing" -> {lightsFlashing(s)}
    [] name = "lightsBroadway" -> {lightsBroadway(s)}
    [] name = "lightsRunning" -> {lightsRunning(s)}
    [] name = "paletteShow" -> paletteShow(s, p)
    [] name = "rainbowShow" -> rainbowShow(s, p)
    [] name = "Fire2012" -> FireOutcomes(s, p)
    [] name = "lightShow" -> lightShow(s, p)
    [] OTHER -> {s}

RECURSIVE UpdateLoop(_, _, _, _, _)
\* timer is "t" or "t2"; the events are read from the state as it is when
\* the loop reaches the slot.
UpdateLoop(S, which, due, i, p) ==
  IF i >= MaxEvents THEN S
  ELSE LET step(s) ==
             LET ev == IF which = "t" THEN s.t[i] ELSE s.t2[i]
             IN  IF i \in due /\ ev.eventType = "EVERY"
                 THEN Callback(s, ev.callback, p) ELSE {s}
       IN  UpdateLoop(Bind(S, step), which, due, i + 1, p)


(***************************************************************************)
(* The environment of a run: what the randomness source and the clock may  *)
(* return, and what the host may send.                                     *)
(***************************************************************************)
FireDraw(c, spark, y, amount) ==
  [cool |-> [i \in Pixels |-> c], spark |-> spark, y |-> y, amount |-> amount]

PrngSmall ==
  [color |-> {0, 4},
   disp |-> {0, 5},
   dirs |-> {[i \in 0 .. 5 |-> i % 2]},
   fire |-> {FireDraw(0, TRUE, 0, 160), FireDraw(CoolLimit - 1, TRUE, 6, 254)},
   secondHand |-> {0, 10},
   chance |-> {TRUE},
   random16 |-> {NUM_LEDS - 1},
   random8_64 |-> {63},
   beatsin16 |-> {NUM_LEDS},
   beatsin8 |-> {255},
   juggle |-> {[i \in 0 .. 7 |-> IF i % 2 = 0 THEN NUM_LEDS ELSE 1]},
   everyN |-> {<<FALSE, FALSE>>, <<TRUE, TRUE>>},
   emptyRead |-> {255}]

\* The packets of the main specification: the version query, stop, play,
\* two mode settings, a packet of two brightness frames, a packet of an
\* unknown opcode and the reset sub-command, and a packet shorter than a
\* frame.
HostMain ==
  [packets |-> {<<0, 0, 0>>, <<1, 0, 0>>, <<1, 0, 1>>,
                <<2, 0, 5>>, <<2, 0, 4>>, <<15, 0, 128, 15, 1, 128>>,
                <<17, 0, 1, 1, 0, 3>>, <<15>>},
   mayDisconnect |-> FALSE]

\* The packets of the mode specification: stop, play (with colour index 5
\* for mode 7) and the mode settings 0..10.
HostModes ==
  [packets |-> {<<1, 0, 0>>, <<1, 5, 1>>} \cup {<<2, 0, m>> : m \in 0 .. 10},
   mayDisconnect |-> FALSE]

\* The randomness of the colour specification: the show at boot is the
\* flashing effect in the first accent colour.
PrngFlash == [PrngSmall EXCEPT !.color = {0}, !.disp = {0}]

\* The packets of the colour specification: the two frames of each of the
\* six colours, and select frames with the indices 1, 5 and 6.
HostColors ==
  [packets |-> {<<op, 17, 34>> : op \in {3, 5, 7, 9, 11, 13}}
                 \cup {<<op, 17, 51>> : op \in {4, 6, 8, 10, 12, 14}}
                 \cup {<<16, 0, 1>>, <<16, 0, 5>>, <<16, 0, 6>>},
   mayDisconnect |-> FALSE]

\* The randomness of the fire specification: the show at boot is the fire
\* simulation; a tick cools every cell by 0 or by the largest amount
\* random8(0, CoolLimit) gives, and sparks or not, at the first or the
\* last cell random8(7) gives, by the largest amount random8(160, 255)
\* gives.
PrngFire ==
  [PrngSmall EXCEPT
     !.color = {0}, !.disp = {5},
     !.fire = {FireDraw(c, sp, y, 254)
                 : c \in {0, CoolLimit - 1}, sp \in BOOLEAN, y \in {0, 6}}]

\* The packets of the fire specification: the version query, stop, and a
\* brightness frame.
HostFire ==
  [packets |-> {<<0, 0, 0>>, <<1, 0, 0>>, <<15, 0, 128>>},
   mayDisconnect |-> FALSE]

\* The randomness of the rainbow specification: the show at boot is the
\* rainbow show; beatsin16(bpm, 0, NUM_LEDS) returns its upper bound.
PrngRainbow == [PrngSmall EXCEPT !.color = {0}, !.disp = {6}]

\* The packets of the rainbow specification: set mode 9 and play in one
\* packet, play, and stop.
HostRainbow ==
  [packets |-> {<<2, 0, 9, 1, 0, 1>>, <<1, 0, 1>>, <<1, 0, 0>>},
   mayDisconnect |-> FALSE]

\* The packets of the link specification: the version query, stop and a
\* brightness frame; the host may drop the connection at any time.
HostLink ==
  [packets |-> {<<0, 0, 0>>, <<1, 0, 0>>, <<15, 0, 128>>},
   mayDisconnect |-> TRUE]

\* The randomness of the show specification: rand() % 7 takes each of its
\* seven values and rand() % 5 its first and last; the patterns' own draws
\* are single values.
PrngShow ==
  [PrngSmall EXCEPT
     !.disp = 0 .. 6,
     !.fire = {FireDraw(0, TRUE, 0, 160)},
     !.secondHand = {0},
     !.everyN = {<<TRUE, TRUE>>}]

\* The packets of the show specification: new red and green for the first
\* accent colour, select the background colour, and set mode 6 and play in
\* one packet.
HostShow ==
  [packets |-> {<<3, 17, 34>>, <<16, 0, 5>>, <<2, 0, 6, 1, 0, 1>>},
   mayDisconnect |-> FALSE]

\* The randomness of the fire-restart specification: the show is always
\* the fire simulation and every fire tick sparks at cell 0, so that the
\* heat buffer is never all zero once the fire has run.
PrngRefire ==
  [PrngSmall EXCEPT
     !.color = {0}, !.disp = {5},
     !.fire = {FireDraw(c, TRUE, 0, 254) : c \in {0, CoolLimit - 1}}]

\* The packets of the select-and-play specification: the mode settings 2,
\* 3 and 5, and packets of a select frame (accent colour 2, background)
\* followed by a play frame.
HostSelect ==
  [packets |-> {<<2, 0, 2>>, <<2, 0, 3>>, <<2, 0, 5>>,
                <<16, 0, 1, 1, 0, 1>>, <<16, 0, 5, 1, 0, 1>>},
   mayDisconnect |-> FALSE]

\* The randomness of the brightness specification: the show picks the
\* flashing effect or the palette show, in the first accent colour.
PrngBright == [PrngSmall EXCEPT !.color = {0}, !.disp = {0, 3}]

\* The packets of the brightness specification: a brightness frame, set
\* mode 8 or 9 and play in one packet, and stop.
HostBright ==
  [packets |-> {<<15, 0, 128>>, <<2, 0, 8, 1, 0, 1>>, <<2, 0, 9, 1, 0, 1>>,
                <<1, 0, 0>>},
   mayDisconnect |-> FALSE]

(***************************************************************************)
(* setup()                                                                 *)
(***************************************************************************)
Boot ==
  [leds |-> [i \in Pixels |-> Black],
   dart1 |-> Dart1Default, dart2 |-> Dart2Default, dart3 |-> Dart3Default,
   dart4 |-> Dart4Default, dart5 |-> Dart5Default,
   backGround |-> BackGroundDefault,
   setColor |-> Black, brightness |-> BrightnessDefault, mode |-> 1,
   timerID |-> 0, timerID2 |-> 0,
   t |-> [i \in Slots |-> NoEvent], t2 |-> [i \in Slots |-> NoEvent],
   clearHeat |-> TRUE, heat |-> [i \in Pixels |-> 0],
   run |-> [i \in 0 .. 5 |-> [pos |-> 0, dir |-> 0]], numRunners |-> 1,
   gCurrentPatternNumber |-> 0, gHue |-> 0,
   currentPalette |-> 8, currentBlending |-> 0,
   blinkBroadway |-> FALSE, blinkFlashing |-> FALSE,
   startIndex |-> 0, lastSecond |-> 99,
   fastBrightness |-> 255, shown |-> [i \in Pixels |-> Black],
   shownBrightness |-> 255, outOfRange |-> FALSE, tx |-> <<>>]

setup(p) ==
  startLightsShow(FastLED_setBrightness(allOff(Boot), Boot.brightness), p)

InitWith(h, p) ==
  /\ host = h
  /\ prng = p
  /\ \E s \in setup(p) :
       /\ leds = s.leds
       /\ dart1 = s.dart1 /\ dart2 = s.dart2 /\ dart3 = s.dart3
       /\ dart4 = s.dart4 /\ dart5 = s.dart5 /\ backGround = s.backGround
       /\ setColor = s.setColor
       /\ brightness = s.brightness
       /\ mode = s.mode
       /\ timerID = s.timerID /\ timerID2 = s.timerID2
       /\ t = s.t /\ t2 = s.t2
       /\ clearHeat = s.clearHeat /\ heat = s.heat
       /\ run = s.run /\ numRunners = s.numRunners
       /\ gCurrentPatternNumber = s.gCurrentPatternNumber /\ gHue = s.gHue
       /\ currentPalette = s.currentPalette
       /\ currentBlending = s.currentBlending
       /\ blinkBroadway = s.blinkBroadway /\ blinkFlashing = s.blinkFlashing
       /\ startIndex = s.startIndex /\ lastSecond = s.lastSecond
       /\ fastBrightness = s.fastBrightness
       /\ shown = s.shown /\ shownBrightness = s.shownBrightness
       /\ outOfRange = s.outOfRange
       /\ tx = s.tx
  /\ rx = <<>>
  /\ connected = FALSE
  /\ loaded = 0
  /\ pc = "t_update"
  /\ data0 = 0 /\ data1 = 0 /\ data2 = 0
  /\ nRecv = 0
  /\ nTicks = 0

Init == InitWith(HostMain, PrngSmall)

(***************************************************************************)
(* loop(): t.update(); t2.update(); while (ble_available()) { decode one   *)
(* frame }; ble_do_events(); connection check.                             *)
(***************************************************************************)
\* t.update(): the due jobs of the effect timer run.
TUpdate ==
  /\ pc = "t_update"
  /\ \E due \in SUBSET Jobs(t) :
       /\ nTicks + Cardinality(due) <= MaxTicks
       /\ nTicks' = nTicks + Cardinality(due)
       /\ \E s \in UpdateLoop({Cur}, "t", due, 0, prng) : Commit(s)
  /\ pc' = "t2_update"
  /\ UNCHANGED <<rx, connected, loaded, data0, data1, data2, host, prng, nRecv>>

\* t2.update(): the due jobs of the sequence timer run.
T2Update ==
  /\ pc = "t2_update"
  /\ \E due \in SUBSET Jobs(t2) :
       /\ nTicks + Cardinality(due) <= MaxTicks
       /\ nTicks' = nTicks + Cardinality(due)
       /\ \E s \in UpdateLoop({Cur}, "t2", due, 0, prng) : Commit(s)
  /\ pc' = "while"
  /\ UNCHANGED <<rx, connected, loaded, data0, data1, data2, host, prng, nRecv>>

\* One iteration of while (ble_available()): three ble_read() calls, then
\* the command is acted on.
DecodeFrame ==
  /\ pc = "while"
  /\ Len(rx) > 0
  /\ \E d0 \in ReadBytes(rx, 1, prng), d1 \in ReadBytes(rx, 2, prng),
        d2 \in ReadBytes(rx, 3, prng) :
       /\ data0' = d0 /\ data1' = d1 /\ data2' = d2
       /\ \E s \in Decode(Cur, d0, d1, d2, prng) : Commit(s)
  /\ rx' = RestAfterFrame(rx)
  /\ UNCHANGED <<connected, loaded, pc, host, prng, nRecv, nTicks>>

\* Fault variant of the end of loop(): a lost connection stops the effect
\* job and blanks the strip.
BleDoEvents_StopOnLoss ==
  /\ pc = "while"
  /\ Len(rx) = 0
  /\ \E ev \in {"none", "connect", "disconnect", "data"} :
       /\ ev = "connect" => ~connected
       /\ ev = "disconnect" => connected /\ host.mayDisconnect
       /\ ev = "data" => connected /\ nRecv < MaxRecv
       /\ connected' = CASE ev = "connect" -> TRUE
                         [] ev = "disconnect" -> FALSE
                         [] OTHER -> connected
       /\ IF ev = "data"
          THEN /\ \E packet \in host.packets : rx' = packet
               /\ nRecv' = nRecv + 1
          ELSE UNCHANGED <<rx, nRecv>>
       /\ IF ev = "disconnect" THEN Commit(allOff(stopTimer(Cur)))
                               ELSE UNCHANGED progVars
  /\ loaded' = IF connected' /\ loaded = 0 THEN 1 ELSE loaded
  /\ pc' = "t_update"
  /\ UNCHANGED <<data0, data1, data2, host, prng, nTicks>>

\* The while loop ends with no byte available; ble_do_events() handles one
\* link event (none, a connect, a disconnect, or a received packet), then
\* the connection check sets loaded.
BleDoEvents ==
  /\ pc = "while"
  /\ Len(rx) = 0
  /\ \E ev \in {"none", "connect", "disconnect", "data"} :
       /\ ev = "connect" => ~connected
       /\ ev = "disconnect" => connected /\ host.mayDisconnect
       /\ ev = "data" => connected /\ nRecv < MaxRecv
       /\ connected' = CASE ev = "connect" -> TRUE
                         [] ev = "disconnect" -> FALSE
                         [] OTHER -> connected
       /\ IF ev = "data"
          THEN /\ \E packet \in host.packets : rx' = packet
               /\ nRecv' = nRecv + 1
          ELSE UNCHANGED <<rx, nRecv>>
  /\ loaded' = IF connected' /\ loaded = 0 THEN 1 ELSE loaded
  /\ pc' = "t_update"
  /\ UNCHANGED <<progVars, data0, data1, data2, host, prng, nTicks>>

Next == TUpdate \/ T2Update \/ DecodeFrame \/ BleDoEvents

Spec == Init /\ [][Next]_vars

InitModes == InitWith(HostModes, PrngSmall)
SpecModes == InitModes /\ [][Next]_vars

InitColors == InitWith(HostColors, PrngFlash)
SpecColors == InitColors /\ [][Next]_vars

InitFire == InitWith(HostFire, PrngFire)
SpecFire == InitFire /\ [][Next]_vars

InitRainbow == InitWith(HostRainbow, PrngRainbow)
SpecRainbow == InitRainbow /\ [][Next]_vars

InitLink == InitWith(HostLink, PrngSmall)
SpecLink == InitLink /\ [][Next]_vars

InitShow == InitWith(HostShow, PrngShow)
SpecShow == InitShow /\ [][Next]_vars

InitRefire == InitWith(HostFire, PrngRefire)
SpecRefire == InitRefire /\ [][Next]_vars

InitSelect == InitWith(HostSelect, PrngSmall)
SpecSelect == InitSelect /\ [][Next]_vars

InitBright == InitWith(HostBright, PrngBright)
SpecBright == InitBright /\ [][Next]_vars


(***************************************************************************)
(* Properties.                                                             *)
(***************************************************************************)
\* In a state with pc = "while" and bytes available the only step loop()
\* can take is one decode step; data0', data1', data2' are the frame it
\* acts on.
DecodeStep == pc = "while" /\ Len(rx) > 0

\* The effect timer holds exactly one job, the one timerID names, bound to
\* callback cb.
EffectJobIs(cb) ==
  \E i \in Slots : Jobs(t) = {i} /\ timerID = i /\ t[i].callback = cb

AllBlack == \A i \in Pixels : leds[i] = Black /\ shown[i] = Black

\* C1: the decoder never consumes a partial frame: a decode step that finds
\* fewer than 3 bytes available reads no byte and changes no program state.
C1_NoPartialFrame ==
  [][(DecodeStep /\ Len(rx) < 3) => (rx' = rx /\ progVars' = progVars)]_vars

C3_FireAfterMode4Play ==
  [][(DecodeStep /\ data0 = 2 /\ data2 = 4 /\ data0' = 1 /\ data2' = 1)
       => EffectJobIs("Fire2012")']_vars


\* Each timer holds at most one job, and it is the one its id variable
\* names (so the next start or stop cancels it).
TimerInv ==
  /\ Cardinality(Jobs(t)) <= 1 /\ Jobs(t) \subseteq {timerID}
  /\ Cardinality(Jobs(t2)) <= 1 /\ Jobs(t2) \subseteq {timerID2}

\* A step that runs a pattern's tick function (seen by the pattern's state
\* changing) ends with that pattern's job as the only effect job: a
\* cancelled job's tick function does not run.
NoOrphanTick ==
  /\ blinkFlashing' # blinkFlashing => EffectJobIs("lightsFlashing")'
  /\ blinkBroadway' # blinkBroadway => EffectJobIs("lightsBroadway")'
  /\ run' # run => EffectJobIs("lightsRunning")'
  /\ startIndex' # startIndex => EffectJobIs("paletteShow")'
  /\ heat' # heat => EffectJobIs("Fire2012")'
  /\ (gHue' # gHue \/ gCurrentPatternNumber' # gCurrentPatternNumber)
       => EffectJobIs("rainbowShow")'

\* C4: at most one job is registered in the effect timer and at most one in
\* the sequence timer, in every state from boot on; a start cancels the job
\* that was registered, so the only effect job afterwards is the new one,
\* and no step runs the tick function of a job that is not the registered
\* one.
C4_OneJobPerTimer == []TimerInv /\ [][NoOrphanTick]_vars

\* C4 witness: an effect was started by a play frame while another effect's
\* job (the one setup() installed) was registered, and a tick has fired since.
C4_Witness ==
  /\ data0 = 1 /\ data2 = 1 /\ mode \in {2, 3, 5, 8, 9}
  /\ nTicks > 0 /\ Cardinality(Jobs(t)) = 1 /\ Cardinality(Jobs(t2)) = 1


Stopped == Jobs(t) = {} /\ Jobs(t2) = {} /\ AllBlack

\* C5: after a stop frame (0x01 with data1 = 0) is decoded no effect job
\* and no sequence job is registered and every pixel is black; from then
\* on every step that is not the decoding of a play frame leaves every
\* pixel black (and no job registered).
C5_StopBlanks ==
  [][/\ (DecodeStep /\ data0' = 1 /\ data2' = 0) => Stopped'
     /\ (Stopped /\ ~(DecodeStep /\ data0' = 1 /\ data2' = 1)) => Stopped']_vars

\* C5 witness: the first packet was a stop frame, decoded while the show
\* setup() started was running, and loop() has gone through t.update()
\* again since.
C5_Witness ==
  /\ nRecv = 1 /\ data0 = 1 /\ data2 = 0 /\ pc = "t2_update" /\ Stopped

NonCompositeModes == {2, 3, 5, 8, 9}

\* C6: after a play frame starts an effect under a non-composite mode no
\* sequence job is active, and until the next frame no clock tick changes
\* the effect timer's job.
C6_NoSequenceJobAfterPlay ==
  [][/\ (DecodeStep /\ data0' = 1 /\ data2' = 1 /\ mode \in NonCompositeModes)
          => Jobs(t2)' = {}
     /\ (pc # "while" /\ data0 = 1 /\ data2 = 1 /\ mode \in NonCompositeModes)
          => t' = t]_vars

\* C7: decoding a brightness frame [0x0f, x, v] sets the configured (and
\* applied) brightness to v and changes nothing else.
C7_BrightnessOnly ==
  [][(DecodeStep /\ data0' = 15)
       => /\ brightness' = data2'
          /\ fastBrightness' = data2' /\ shownBrightness' = data2'
          /\ UNCHANGED <<leds, shown, dart1, dart2, dart3, dart4, dart5,
                         backGround, setColor, mode, timerID, timerID2, t, t2,
                         clearHeat, heat, run, numRunners,
                         gCurrentPatternNumber, gHue, currentPalette,
                         currentBlending, blinkBroadway, blinkFlashing,
                         startIndex, lastSecond, outOfRange, tx>>]_vars

\* C7 witness: [0x0f, x, 0x80] was decoded while an effect was drawing.
C7_Witness ==
  /\ data0 = 15 /\ data2 = 128 /\ brightness = 128 /\ fastBrightness = 128
  /\ Jobs(t) # {} /\ ~AllBlack

\* C8: in every reachable state and for every value v, decoding the
\* brightness frame [0x0f, x, v] twice in a row gives the state that
\* decoding it once gives.
C8_BrightnessIdempotent ==
  \A v \in {0, 50, 128, 255} : \A x \in {0, 1} :
    \A s1 \in Decode(Cur, 15, x, v, prng) : Decode(s1, 15, x, v, prng) = {s1}

\* C8 witness: one packet carried the brightness frame twice; both were
\* decoded in the same while loop.
C8_Witness ==
  /\ nRecv = 1 /\ rx = <<>> /\ data0 = 15 /\ data1 = 1 /\ data2 = 128
  /\ brightness = 128

\* C9: decoding a frame with opcode 0x00 appends exactly the three bytes
\* 0x00, hi(firmwareVersion), lo(firmwareVersion) to the transport output
\* and changes nothing else; no other step writes to the transport.
C9_VersionReply ==
  [][IF DecodeStep /\ data0' = 0
     THEN /\ tx' = tx \o <<0, firmwareVersion \div 256, firmwareVersion % 256>>
          /\ UNCHANGED <<leds, shown, dart1, dart2, dart3, dart4, dart5,
                         backGround, setColor, brightness, mode, timerID,
                         timerID2, t, t2, clearHeat, heat, run, numRunners,
                         gCurrentPatternNumber, gHue, currentPalette,
                         currentBlending, blinkBroadway, blinkFlashing,
                         startIndex, lastSecond, fastBrightness,
                         shownBrightness, outOfRange>>
     ELSE tx' = tx]_vars

\* C9 witness: the reply to one version query, [0x00, 0x00, 0xBF].
C9_Witness == tx = <<0, 0, 191>> /\ data0 = 0 /\ nRecv = 1 /\ Jobs(t) # {}

\* C10: a frame whose opcode is above 0x10, and a play-control frame whose
\* sub-command is 3 (reset), change no program state and write nothing to
\* the transport.
C10_NoOpFrames ==
  [][(DecodeStep /\ (data0' > 16 \/ (data0' = 1 /\ data2' = 3)))
       => progVars' = progVars]_vars

\* C10 witness: the one packet received carried an unknown opcode and then
\* the reset sub-command; both were decoded while an effect was running.
C10_Witness ==
  /\ nRecv = 1 /\ rx = <<>> /\ data0 = 1 /\ data2 = 3 /\ Jobs(t) # {}

\* C11: decoding a select-active-colour frame (opcode 0x10) whose index is
\* outside 0..5 changes no colour, brightness or mode, cancels no job and
\* leaves the pixel buffer unchanged.
C11_MalformedSelectIgnored ==
  [][(DecodeStep /\ data0' = 16 /\ data2' \notin 0 .. 5)
       => progVars' = progVars]_vars

\* The pixels that show the active colour.
Lit == {i \in Pixels : leds[i] = setColor}

\* C12: every tick of the running lights (a t.update() step that moves the
\* runners and leaves the running-lights job registered) ends with every
\* runner position inside [0, NUM_LEDS) and with exactly numRunners pixels
\* showing the active colour.
C12_RunnersDistinct ==
  [][(pc = "t_update" /\ run' # run /\ EffectJobIs("lightsRunning")')
       => /\ \A i \in 0 .. (numRunners' - 1) : run'[i].pos \in Pixels
          /\ Cardinality(Lit') = numRunners']_vars

\* C13: after any number of fire ticks, whatever the cooling and spark draws
\* were, every heat cell holds a value in [0, 255].
C13_HeatInRange == \A i \in Pixels : heat[i] \in 0 .. 255

\* C13 witness: the fire job is registered, a tick has fired, two sparks
\* have driven cell 0 to the top of the range (254 + 254 clamped) and a
\* cell above it is at 0.
C13_Witness ==
  /\ EffectJobIs("Fire2012") /\ nTicks > 0
  /\ heat[0] = 255 /\ \E i \in Pixels : i > 0 /\ heat[i] = 0

\* C14: no pattern tick writes the pixel buffer at an index outside
\* [0, NUM_LEDS), whatever value inside their documented ranges the
\* randomness source and the beat generators return.
C14_TickIndicesInRange == ~outOfRange

\* C15: a step in which the link goes from connected to not connected
\* changes no program state (neither timer, no effect state, no colour,
\* brightness or mode, no pixel); and whenever the link is down while an
\* effect job is registered, the next t.update() can still run it.
C15_DisconnectKeepsEffect ==
  /\ [][(connected /\ ~connected') => progVars' = progVars]_vars
  /\ []((~connected /\ pc = "t_update" /\ Jobs(t) # {} /\ nTicks < MaxTicks)
          => ENABLED (TUpdate /\ nTicks' > nTicks /\ progVars' # progVars))

\* C15 witness: the link was up (loaded is set), it is down now, the effect
\* job is still registered and t.update() has just fired it.
C15_Witness ==
  /\ ~connected /\ loaded = 1 /\ nRecv > 0 /\ pc = "t2_update"
  /\ nTicks > 0 /\ Jobs(t) # {} /\ ~AllBlack

\* The six colour slots, in the order of the select index 0..5.
ColorSlots == <<dart1, dart2, dart3, dart4, dart5, backGround>>

\* The last frame decoded was a play frame and the mode is a solid mode:
\* mode 1, or mode 7 with a colour index 0..5.
SolidPlay ==
  /\ data0 = 1 /\ data2 = 1
  /\ (mode = 1 \/ (mode = 7 /\ data1 \in 0 .. 5))

SolidColor == IF mode = 1 THEN dart1 ELSE ColorSlots[data1 + 1]

\* C16: decoding a play frame under a solid mode leaves every pixel showing
\* the selected colour, and from then on, until the next frame is decoded,
\* no timer update (of the effect timer or of the sequence timer) changes a
\* pixel.
C16_SolidStaysSolid ==
  [][/\ (DecodeStep /\ SolidPlay')
          => \A i \in Pixels : leds'[i] = SolidColor' /\ shown'[i] = SolidColor'
     /\ (pc # "while" /\ SolidPlay) => (leds' = leds /\ shown' = shown)]_vars

\* C17: decoding a set-mode frame [0x02, x, m] stores mode = m and changes
\* nothing else (no job, pixel, colour, brightness or effect state); no
\* other step changes the mode; and decoding a play frame gives one of the
\* outcomes of the play switch evaluated on the mode stored at that moment.
C17_SetModeOnlyStores ==
  [][/\ IF DecodeStep /\ data0' = 2
        THEN /\ mode' = data2'
             /\ UNCHANGED <<leds, shown, dart1, dart2, dart3, dart4, dart5,
                            backGround, setColor, brightness, timerID,
                            timerID2, t, t2, clearHeat, heat, run, numRunners,
                            gCurrentPatternNumber, gHue, currentPalette,
                            currentBlending, blinkBroadway, blinkFlashing,
                            startIndex, lastSecond, fastBrightness,
                            shownBrightness, outOfRange, tx>>
        ELSE mode' = mode
     /\ (DecodeStep /\ data0' = 1 /\ data2' = 1)
          => Cur' \in Play(Cur, data1', prng)]_vars

\* C17 witness: the set-mode frame for mode 9 was decoded while the show of
\* setup() was running, and the play frame after it started the rainbow
\* show.
C17_Witness ==
  /\ nRecv = 2 /\ data0 = 1 /\ data2 = 1 /\ mode = 9
  /\ EffectJobIs("rainbowShow")

\* C18: decoding a colour frame with opcode 0x03..0x0e changes only the
\* colour slot of its pair: the odd opcode sets the slot's red to the
\* frame's second byte and its green to the third and keeps its blue; the
\* even opcode sets the slot's blue to the third byte and keeps red and
\* green.  No other colour, nor the active colour, the brightness, the
\* mode, a timer or a pixel changes.
C18_ColorFrames ==
  [][(DecodeStep /\ data0' \in 3 .. 14)
       => LET k == ((data0' - 3) \div 2) + 1
          IN  /\ IF data0' % 2 = 1
                 THEN /\ Red(ColorSlots'[k]) = data1'
                      /\ Green(ColorSlots'[k]) = data2'
                      /\ Blue(ColorSlots'[k]) = Blue(ColorSlots[k])
                 ELSE /\ Blue(ColorSlots'[k]) = data2'
                      /\ Red(ColorSlots'[k]) = Red(ColorSlots[k])
                      /\ Green(ColorSlots'[k]) = Green(ColorSlots[k])
              /\ \A j \in 1 .. 6 : j # k => ColorSlots'[j] = ColorSlots[j]
              /\ UNCHANGED <<leds, shown, setColor, brightness, mode, timerID,
                             timerID2, t, t2, clearHeat, heat, run, numRunners,
                             gCurrentPatternNumber, gHue, currentPalette,
                             currentBlending, blinkBroadway, blinkFlashing,
                             startIndex, lastSecond, fastBrightness,
                             shownBrightness, outOfRange, tx>>]_vars

\* C18 witness: both frames of the background colour were decoded, the
\* odd one first, while an effect was running.
C18_Witness ==
  /\ nRecv = 2 /\ data0 = 14 /\ backGround = RGB(17, 34, 51)
  /\ Jobs(t) # {} /\ dart1 = Dart1Default

\* C19: when the last frame decoded was the select frame [0x10, x, i] with
\* i in 0..5 and the active colour still equals colour slot i, decoding a
\* colour frame of slot i (opcode 3 + 2i or 4 + 2i) leaves the active
\* colour equal to the slot's new value, so the next effect tick draws it.
C19_ActiveColorFollowsSlot ==
  [][(/\ DecodeStep /\ data0 = 16 /\ data2 \in 0 .. 5
      /\ setColor = ColorSlots[data2 + 1]
      /\ data0' \in {3 + (2 * data2), 4 + (2 * data2)})
       => setColor' = ColorSlots'[data2 + 1]]_vars

\* The pattern lightShow starts for each value of rand() % 7: the tick
\* function, its period and (for the running lights) the number of runners.
ShowPatterns ==
  <<[callback |-> "lightsFlashing", period |-> 200, runners |-> 0],
    [callback |-> "lightsRunning", period |-> 200, runners |-> 4],
    [callback |-> "lightsBroadway", period |-> 200, runners |-> 0],
    [callback |-> "paletteShow", period |-> 10, runners |-> 0],
    [callback |-> "lightsRunning", period |-> 200, runners |-> 6],
    [callback |-> "Fire2012", period |-> 100, runners |-> 0],
    [callback |-> "rainbowShow", period |-> 10, runners |-> 0]>>

\* In the program state s the effect timer holds exactly one job, the one
\* timerID names, and it is pattern pat.
RunsPattern(s, pat) ==
  \E i \in Slots :
    /\ {j \in Slots : s.t[j].eventType = "EVERY"} = {i} /\ s.timerID = i
    /\ s.t[i].callback = pat.callback /\ s.t[i].period = pat.period
    /\ pat.runners # 0 => s.numRunners = pat.runners

\* The state a firing of the sequence job must leave: one effect job, of a
\* registered pattern, and an active colour that is the current value of
\* one of the five accent colours.
ShowOutcome ==
  /\ \E d \in 1 .. 7 : RunsPattern(Cur, ShowPatterns[d])
  /\ setColor \in {dart1, dart2, dart3, dart4, dart5}

\* When loop() reaches t2.update() with the sequence job registered, each
\* of the seven patterns is a possible outcome of its firing.
ShowSelectable ==
  (pc = "t2_update" /\ Jobs(t2) # {}) =>
    \A d \in 0 .. 6 :
      \E s \in lightShow(Cur, [prng EXCEPT !.disp = {d}]) :
        RunsPattern(s, ShowPatterns[d + 1])

\* C20: the composite show as started by setup(), as started by a play
\* frame under mode 6, and after every firing of the sequence job, has
\* exactly one effect job, bound to one of the seven patterns, and an
\* active colour equal to one of the five accent colours; each of the
\* seven patterns can be selected.
C20_ShowOutcome ==
  /\ []((nRecv = 0 /\ nTicks = 0) => ShowOutcome)
  /\ []ShowSelectable
  /\ [][/\ (pc = "t2_update" /\ nTicks' > nTicks) => ShowOutcome'
        /\ (DecodeStep /\ data0' = 1 /\ data2' = 1 /\ mode = 6)
             => ShowOutcome']_vars

\* C20 witness: the one frame received gave the first accent colour a new
\* value, and a later firing of the sequence job made that new value the
\* active colour and started the 6-runner running lights.
C20_Witness ==
  /\ nRecv = 1 /\ data0 = 3 /\ dart1 = RGB(17, 34, 80) /\ setColor = dart1
  /\ Jobs(t2) # {} /\ RunsPattern(Cur, ShowPatterns[5])

\* The heat buffers one fire tick can produce from an all-zero buffer.
HeatFromZero ==
  {Fire2012([Cur EXCEPT !.clearHeat = TRUE], d).heat : d \in prng.fire}

\* C21: when a firing of the sequence job (re)starts the fire effect, the
\* heat buffer after the first fire tick of that start (the one startFire
\* runs) is one a tick computes from an all-zero buffer, whatever heat the
\* earlier run had left; the same holds for the start made by setup().
C21_HeatZeroedOnStart ==
  /\ []((nTicks = 0 /\ EffectJobIs("Fire2012")) => heat \in HeatFromZero)
  /\ [][(pc = "t2_update" /\ nTicks' > nTicks /\ EffectJobIs("Fire2012")')
          => (heat' \in HeatFromZero /\ ~clearHeat')]_vars

\* C21 witness: every fire tick of this specification sparks at cell 0, so
\* the buffer is never all zero once the fire has run, and a timer tick of
\* the running fire carries that heat up to cell 2.  After the second
\* callback cell 2 is cold and cell 0 holds exactly one spark: that
\* callback was a restart of the fire by the sequence job, over a buffer
\* that was not zero.
C21_Witness ==
  /\ nTicks = 2 /\ EffectJobIs("Fire2012")
  /\ heat[0] = 254 /\ heat[2] = 0

\* The program state s with the persistent state of the flashing, broadway
\* and palette ticks at its initial value (static bool blink = false,
\* static uint8_t startIndex = 0).
FreshTicks(s) ==
  [s EXCEPT !.blinkFlashing = FALSE, !.blinkBroadway = FALSE, !.startIndex = 0]

\* The tick function the play frame starts under modes 2, 5 and 8.
TickOfMode(m) ==
  CASE m = 2 -> "lightsFlashing"
    [] m = 5 -> "lightsBroadway"
    [] m = 8 -> "paletteShow"
    [] OTHER -> "none"

\* C22: when a play frame starts flashing, broadway or the palette show
\* while a different effect is running, the first frame the start draws is
\* a frame the same start draws from the initial persistent state (blink
\* flags false, palette index 0), whatever the earlier activations left.
C22_FirstFrameSame ==
  [][(/\ DecodeStep /\ data0' = 1 /\ data2' = 1 /\ mode \in {2, 5, 8}
      /\ Jobs(t) # {} /\ ~EffectJobIs(TickOfMode(mode)))
       => shown' \in {s.shown : s \in Play(FreshTicks(Cur), data1', prng)}]_vars

\* A timer tick of the running fire effect.
FireTickStep == pc = "t_update" /\ nTicks' > nTicks /\ EffectJobIs("Fire2012")

\* The heat buffer after the cooling step with the draws d.
Cooled(d) == [i \in Pixels |-> qsub8(heat[i], d.cool[i])]

\* C23 (as stated): in a fire tick every cell k >= 2 becomes the average of
\* the cooled cells k, k-1 and k-2, and cells 0 and 1 keep their cooled
\* value (the cell the spark is added to is left out of the comparison).
C23_DiffusionSelfAverage ==
  [][FireTickStep
       => \E d \in prng.fire :
            \A k \in Pixels :
              ~(d.spark /\ d.y = k)
                => heat'[k] = IF k >= 2
                              THEN (Cooled(d)[k] + Cooled(d)[k - 1]
                                      + Cooled(d)[k - 2]) \div 3
                              ELSE Cooled(d)[k]]_vars

\* C23 (amended): in a fire tick every cell k >= 2 becomes one third
\* (rounded down) of the cooled cell k-1 plus twice the cooled cell k-2,
\* the cell's own value not entering; the scan runs from the far end, so
\* the values read are those before the step; cells 0 and 1 keep their
\* cooled value.
C23_DiffusionWeights ==
  [][FireTickStep
       => \E d \in prng.fire :
            \A k \in Pixels :
              ~(d.spark /\ d.y = k)
                => heat'[k] = IF k >= 2
                              THEN (Cooled(d)[k - 1] + (2 * Cooled(d)[k - 2])) \div 3
                              ELSE Cooled(d)[k]]_vars

\* C23 witness: a spark of 254 at cell 0, then one tick with no cooling
\* and no spark: cell 2 holds (0 + 2 * 254) / 3 = 169 and cell 1 is cold.
C23_Witness ==
  /\ EffectJobIs("Fire2012") /\ nTicks = 1
  /\ heat[0] = 254 /\ heat[1] = 0 /\ heat[2] = 169

\* C24: when the last frame decoded was the select frame [0x10, x, i] with
\* i in 0..5 (so the active colour is colour i), decoding a play frame
\* under mode 2, 3 or 5 changes no colour, brightness or mode and leaves
\* the active colour equal to colour i.
C24_PlayKeepsActiveColor ==
  [][(/\ DecodeStep /\ data0 = 16 /\ data2 \in 0 .. 5
      /\ setColor = ColorSlots[data2 + 1]
      /\ data0' = 1 /\ data2' = 1 /\ mode \in {2, 3, 5})
       => /\ UNCHANGED <<dart1, dart2, dart3, dart4, dart5, backGround,
                         brightness, mode>>
          /\ setColor' = ColorSlots[data2 + 1]]_vars

\* C25: once a brightness frame has been decoded (the configured brightness
\* is changed by nothing else, so it then differs from its boot value), the
\* brightness set in the pixel sink and the brightness used by the last
\* flush equal the configured brightness, across play frames, effect starts
\* and firings of the sequence job.
C25_AppliedBrightness ==
  brightness # BrightnessDefault
    => (fastBrightness = brightness /\ shownBrightness = brightness)

====
